---- MODULE Spec2Model ----
(***************************************************************************)
(* Model of scrape.py (PreciousWarrior/weather-scraper): the collection    *)
(* loop of main(), the device record extractor, the datetime assembler,    *)
(* the lat/lon lookup and the merge / dedup / save of the output CSV.      *)
(*                                                                         *)
(* Cells of a pandas frame are records [k, n, s]:                          *)
(*   k = "na"      a missing cell (NaN / None)                             *)
(*   k = "num"     a numeric cell, n is its value in tenths (21.5 = 215)   *)
(*   k = "numtext" a text cell spelling a number, n in tenths, s the text  *)
(*   k = "text"    any other text cell, s is the text                      *)
(* Column headers of a device feed are sequences of characters, so that    *)
(* Python's `s in col` is a real substring test.                           *)
(***************************************************************************)
EXTENDS Integers, Sequences, FiniteSets, TLC

VARIABLES pc, idx, gdf_row, url, device_df, collected, failures, file,
          removed, run, lastCollected, lastFile, lastWrote, arg, ret

vars == <<pc, idx, gdf_row, url, device_df, collected, failures, file,
          removed, run, lastCollected, lastFile, lastWrote, arg, ret>>

\* ------------------------------------------------------------------ bounds
MaxLocations == 2
MaxRuns == 2

\* ------------------------------------------------------------------- cells
NA == [k |-> "na", n |-> 0, s |-> ""]

Pad2(n) == IF n < 10 THEN "0" \o ToString(n) ELSE ToString(n)

\* str() of a float64 whose value is n tenths: 215 -> "21.5", 70 -> "7.0"
FloatStr(n) ==
  IF n < 0 THEN "-" \o ToString((0 - n) \div 10) \o "." \o ToString((0 - n) % 10)
  ELSE ToString(n \div 10) \o "." \o ToString(n % 10)

Num(n) == [k |-> "num", n |-> n, s |-> ""]
NumTxt(n) == [k |-> "numtext", n |-> n, s |-> FloatStr(n)]
Txt(s) == [k |-> "text", n |-> 0, s |-> s]

\* pd.isna / pd.notna on a scalar cell
isna(v) == v.k = "na"

\* float(v) raises ValueError exactly on text that does not spell a number
FloatRaises(v) == v.k = "text"
FloatOf(v) == Num(v.n)

\* int(): truncation toward zero of a value given in tenths
IntTrunc(n) == IF n >= 0 THEN n \div 10 ELSE 0 - ((0 - n) \div 10)

\* variant: the identifier column is left as collected, without astype(str)
AsTypeStr_NoCast(v) == v

\* Series.astype(str).where(notna, None) applied to one cell
AsTypeStr(v) ==
  IF isna(v) THEN NA
  ELSE IF v.k = "num" THEN Txt(FloatStr(v.n))
  ELSE Txt(v.s)

\* ----------------------------------------------------------- column names
cLamppostID == <<"L","a","m","p","p","o","s","t"," ","I","D">>
cDataMeasurement == <<"D","a","t","a"," ","m","e","a","s","u","r","e","m","e","n","t">>
cYear == <<"Y","e","a","r">>
cMonth == <<"M","o","n","t","h">>
cDay == <<"D","a","y">>
cHour == <<"H","o","u","r">>
cMinute == <<"M","i","n","u","t","e">>
cSecond == <<"S","e","c","o","n","d">>
cAirTemperature == <<"A","i","r"," ","t","e","m","p","e","r","a","t","u","r","e">>
cRelativeHumidity == <<"R","e","l","a","t","i","v","e"," ","h","u","m","i","d","i","t","y">>
cDeviceHeight == <<"D","e","v","i","c","e"," ","h","e","i","g","h","t">>

SEARCH_KEYS ==
  [lamppost_id |-> <<cLamppostID>>,
   measurement_year |-> <<cDataMeasurement, cYear>>,
   measurement_month |-> <<cDataMeasurement, cMonth>>,
   measurement_day |-> <<cDataMeasurement, cDay>>,
   measurement_hour |-> <<cDataMeasurement, cHour>>,
   measurement_minute |-> <<cDataMeasurement, cMinute>>,
   measurement_second |-> <<cDataMeasurement, cSecond>>,
   air_temperature |-> <<cAirTemperature>>,
   relative_humidity |-> <<cRelativeHumidity>>,
   device_height |-> <<cDeviceHeight>>]

\* Python's `s in col` on strings
Contains(col, s) ==
  \E i \in 0..(Len(col) - Len(s)) : \A j \in 1..Len(s) : col[i + j] = s[j]

\* find_column_by_substring, as the index of the column (0 = None)
find_column_by_substring(columns, substrings) ==
  LET ok(c) == \A j \in 1..Len(substrings) : Contains(columns[c], substrings[j])
      hits == {c \in 1..Len(columns) : ok(c)}
  IN IF hits = {} THEN 0 ELSE CHOOSE c \in hits : \A d \in hits : c <= d

\* row.get(col): the cell of the row under the column, None when col is None
RowGet(row, c) == IF c = 0 THEN NA ELSE row[c]

\* --------------------------------------------------------------- datetime
IsLeap(y) == (y % 4 = 0 /\ y % 100 # 0) \/ y % 400 = 0

DaysInMonth(y, m) ==
  IF m = 2 THEN (IF IsLeap(y) THEN 29 ELSE 28)
  ELSE IF m \in {4, 6, 9, 11} THEN 30 ELSE 31

\* datetime(y, mo, da, h, mi, s) does not raise
ValidDatetime(y, mo, da, h, mi, s) ==
  /\ y >= 1 /\ y <= 9999
  /\ mo >= 1 /\ mo <= 12
  /\ da >= 1 /\ da <= DaysInMonth(y, mo)
  /\ h >= 0 /\ h <= 23
  /\ mi >= 0 /\ mi <= 59
  /\ s >= 0 /\ s <= 59

\* dt.strftime("%Y-%m-%dT%H:%M:%S") for a four-digit year
Strftime(y, mo, da, h, mi, s) ==
  ToString(y) \o "-" \o Pad2(mo) \o "-" \o Pad2(da) \o "T"
    \o Pad2(h) \o ":" \o Pad2(mi) \o ":" \o Pad2(s)

\* to_int_safe: `none` is TRUE for a None result, otherwise `v` is the int
to_int_safe(v) ==
  IF isna(v) \/ FloatRaises(v) THEN [none |-> TRUE, v |-> 0]
  ELSE [none |-> FALSE, v |-> IntTrunc(v.n)]

\* variant: without `or 0` a None reaches datetime(), which raises
OrZero_NoDefault(r) == IF r.none THEN 0 - 1 ELSE r.v

\* `to_int_safe(...) or 0`
OrZero(r) == IF r.none THEN 0 ELSE r.v

\* cols_map holds column
\* indexes, 0 for None
build_measurement_datetime_from_row_using_columns(row, cols_map) ==
  IF cols_map.measurement_year = 0 \/ cols_map.measurement_month = 0
       \/ cols_map.measurement_day = 0
  THEN NA
  ELSE
    LET y == to_int_safe(RowGet(row, cols_map.measurement_year))
        mo == to_int_safe(RowGet(row, cols_map.measurement_month))
        da == to_int_safe(RowGet(row, cols_map.measurement_day))
        h == OrZero(to_int_safe(RowGet(row, cols_map.measurement_hour)))
        mi == OrZero(to_int_safe(RowGet(row, cols_map.measurement_minute)))
        s == OrZero(to_int_safe(RowGet(row, cols_map.measurement_second)))
    IN IF y.none \/ mo.none \/ da.none THEN NA
       ELSE IF ~ValidDatetime(y.v, mo.v, da.v, h, mi, s) THEN NA
       ELSE Txt(Strftime(y.v, mo.v, da.v, h, mi, s))

\* ---------------------------------------------------------- device feeds
\* A parsed feed: header row and data rows (one cell per column)
DataFrame(columns, rows) == [columns |-> columns, rows |-> rows]

EmptyFrame == DataFrame(<<>>, <<>>)

\* the headers of the feeds of the model
colYear == cDataMeasurement \o <<" ">> \o cYear
colMonth == cDataMeasurement \o <<" ">> \o cMonth
colDay == cDataMeasurement \o <<" ">> \o cDay
colHour == cDataMeasurement \o <<" ">> \o cHour
colMinute == cDataMeasurement \o <<" ">> \o cMinute
colSecond == cDataMeasurement \o <<" ">> \o cSecond
colTemp == cAirTemperature \o <<" ", "(", "C", ")">>
colHum == cRelativeHumidity \o <<" ", "(", "%", ")">>
colHeight == cDeviceHeight \o <<" ", "(", "m", ")">>
colFoo == <<"f", "o", "o">>
colBar == <<"b", "a", "r">>

ExampleColumns == <<cLamppostID, colYear, colMonth, colDay, colTemp, colHum, colHeight>>
HourlyColumns == <<cLamppostID, colYear, colMonth, colDay, colHour, colTemp, colHum, colHeight>>
UnmatchedColumns == <<colFoo, colBar>>

\* line 139-148: the `found` map of a header
FindAll(columns) ==
  [lamppost_id |-> find_column_by_substring(columns, SEARCH_KEYS.lamppost_id),
   air_temperature |-> find_column_by_substring(columns, SEARCH_KEYS.air_temperature),
   relative_humidity |-> find_column_by_substring(columns, SEARCH_KEYS.relative_humidity),
   device_height |-> find_column_by_substring(columns, SEARCH_KEYS.device_height),
   measurement_year |-> find_column_by_substring(columns, SEARCH_KEYS.measurement_year),
   measurement_month |-> find_column_by_substring(columns, SEARCH_KEYS.measurement_month),
   measurement_day |-> find_column_by_substring(columns, SEARCH_KEYS.measurement_day),
   measurement_hour |-> find_column_by_substring(columns, SEARCH_KEYS.measurement_hour),
   measurement_minute |-> find_column_by_substring(columns, SEARCH_KEYS.measurement_minute),
   measurement_second |-> find_column_by_substring(columns, SEARCH_KEYS.measurement_second)]

\* FindAll of the headers of the model, computed once
FoundOfHeader == [h \in {ExampleColumns, HourlyColumns, UnmatchedColumns} |-> FindAll(h)]

\* extract_fields_from_device_df, line 139-148
FoundColumns(df) ==
  IF df.columns \in DOMAIN FoundOfHeader THEN FoundOfHeader[df.columns]
  ELSE FindAll(df.columns)

\* `float(x) if (x is not None and not pd.isna(x)) else None`
CoerceRaises(v) == ~isna(v) /\ FloatRaises(v)
CoerceFloat(v) == IF isna(v) THEN NA ELSE FloatOf(v)

\* extract_fields_from_device_df raises: device_df.iloc[0,0] on a frame
\* without rows (IndexError), or float() on a non-numeric cell (ValueError)
ExtractRaises(df) ==
  LET found == FoundColumns(df)
  IN \/ Len(df.rows) = 0
     \/ \E i \in 1..Len(df.rows) :
          \/ CoerceRaises(RowGet(df.rows[i], found.air_temperature))
          \/ CoerceRaises(RowGet(df.rows[i], found.relative_humidity))
          \/ CoerceRaises(RowGet(df.rows[i], found.device_height))

\* one output row of extract_fields_from_device_df (line 153-165)
ExtractRow(r, found) ==
  [lamppost_id |-> RowGet(r, found.lamppost_id),
   measurement_datetime |-> build_measurement_datetime_from_row_using_columns(r, found),
   air_temperature_c |-> CoerceFloat(RowGet(r, found.air_temperature)),
   relative_humidity_pct |-> CoerceFloat(RowGet(r, found.relative_humidity)),
   device_height_m |-> CoerceFloat(RowGet(r, found.device_height))]

\* extract_fields_from_device_df, when it does not raise
extract_fields_from_device_df(df) ==
  [i \in 1..Len(df.rows) |-> ExtractRow(df.rows[i], FoundColumns(df))]

\* DataFrame.empty of the extracted frame
IsEmptyFrame(extracted) == Len(extracted) = 0

\* -------------------------------------------------------- location rows
DEVICE_URL_COLUMNS == <<"DEVICE_04_DATA_URL", "DEVICE_02_DATA_URL", "DEVICE_01_DATA_URL">>

Field(name, val) == [name |-> name, val |-> val]

\* str.strip() on the url texts of the model
Strip(s) ==
  CASE s = " " -> ""
    [] s = " http://d1/csv " -> "http://d1/csv"
    [] OTHER -> s

\* str.lower() on the field names of the model
Lower(s) ==
  CASE s = "LP_LATITUDE" -> "lp_latitude"
    [] s = "Lp_Latitude" -> "lp_latitude"
    [] s = "LP_LONGITUDE" -> "lp_longitude"
    [] s = "Lp_Longitude" -> "lp_longitude"
    [] s = "OBJECTID" -> "objectid"
    [] OTHER -> s

\* row[c] for a label the row has
RowAt(row, c) == row[CHOOSE i \in 1..Len(row) : row[i].name = c].val

HasField(row, c) == \E i \in 1..Len(row) : row[i].name = c

\* the test of line 64
UrlUsable(row, c) ==
  HasField(row, c) /\ ~isna(RowAt(row, c)) /\ Strip(RowAt(row, c).s) # ""

\* find_active_url_from_row: "" stands for None
find_active_url_from_row(row) ==
  LET usable == {j \in 1..Len(DEVICE_URL_COLUMNS) : UrlUsable(row, DEVICE_URL_COLUMNS[j])}
  IN IF usable = {} THEN ""
     ELSE Strip(RowAt(row, DEVICE_URL_COLUMNS[CHOOSE j \in usable : \A k \in usable : j <= k]).s)

\* find_gdb_latlon: the loop assigns on every matching field and never breaks
RECURSIVE LatLonLoop(_, _, _)
LatLonLoop(row, i, acc) ==
  IF i > Len(row) THEN acc
  ELSE LatLonLoop(row, i + 1,
         [lat |-> IF Lower(row[i].name) = "lp_latitude" THEN row[i].val ELSE acc.lat,
          lon |-> IF Lower(row[i].name) = "lp_longitude" THEN row[i].val ELSE acc.lon])

\* variant: the loop stops at the first matching field
find_gdb_latlon_first(row) ==
  LET lats == {i \in 1..Len(row) : Lower(row[i].name) = "lp_latitude"}
      lons == {i \in 1..Len(row) : Lower(row[i].name) = "lp_longitude"}
  IN [lat |-> IF lats = {} THEN NA ELSE row[CHOOSE i \in lats : \A j \in lats : i <= j].val,
      lon |-> IF lons = {} THEN NA ELSE row[CHOOSE i \in lons : \A j \in lons : i <= j].val]

find_gdb_latlon(row) == LatLonLoop(row, 1, [lat |-> NA, lon |-> NA])

\* line 229-234: the extracted rows with lat, lon and source_url attached
AttachLocation(extracted, row, u) ==
  LET ll == find_gdb_latlon(row)
  IN [i \in 1..Len(extracted) |->
        [lamppost_id |-> extracted[i].lamppost_id,
         measurement_datetime |-> extracted[i].measurement_datetime,
         air_temperature_c |-> extracted[i].air_temperature_c,
         relative_humidity_pct |-> extracted[i].relative_humidity_pct,
         device_height_m |-> extracted[i].device_height_m,
         lp_latitude |-> ll.lat,
         lp_longitude |-> ll.lon,
         source_url |-> Txt(u)]]

\* ------------------------------------------------- merge, dedup and save
OUT_COLS == <<"lamppost_id", "measurement_datetime", "air_temperature_c",
              "relative_humidity_pct", "device_height_m", "lp_latitude",
              "lp_longitude", "source_url">>

\* the timestamps pandas can parse back, within the values the feeds carry
DtYears == {2024}
DtMonths == {2, 3}
DtDays == {5, 29}
DtHours == {0, 7}
DtMinutes == {0}
DtSeconds == {0}

DtTuples == DtYears \X DtMonths \X DtDays \X DtHours \X DtMinutes \X DtSeconds

FmtIso(t) == Strftime(t[1], t[2], t[3], t[4], t[5], t[6])

\* the same instant written with a blank between date and time
FmtBlank(t) ==
  ToString(t[1]) \o "-" \o Pad2(t[2]) \o "-" \o Pad2(t[3]) \o " "
    \o Pad2(t[4]) \o ":" \o Pad2(t[5]) \o ":" \o Pad2(t[6])

\* the tuples in a fixed order, and their two spellings
RECURSIVE SetToSeq(_)
SetToSeq(S) ==
  IF S = {} THEN <<>>
  ELSE LET x == CHOOSE y \in S : TRUE IN <<x>> \o SetToSeq(S \ {x})

DtList == SetToSeq(DtTuples)
IsoText == [i \in DOMAIN DtList |-> FmtIso(DtList[i])]
BlankText == [i \in DOMAIN DtList |-> FmtBlank(DtList[i])]
ParseableTexts == {IsoText[i] : i \in DOMAIN DtList} \cup {BlankText[i] : i \in DOMAIN DtList}

Parseable(s) == s \in ParseableTexts

\* pd.to_datetime(..., errors="coerce") on one text: the index of its tuple
to_datetime(s) == CHOOSE i \in DOMAIN DtList : s = IsoText[i] \/ s = BlankText[i]

\* line 252-254 on one cell: re-parse and re-format, NaT becomes None
NormalizeDatetime(v) ==
  IF isna(v) \/ ~Parseable(v.s) THEN NA ELSE Txt(IsoText[to_datetime(v.s)])

SetField(row, v, w) ==
  [lamppost_id |-> w,
   measurement_datetime |-> v,
   air_temperature_c |-> row.air_temperature_c,
   relative_humidity_pct |-> row.relative_humidity_pct,
   device_height_m |-> row.device_height_m,
   lp_latitude |-> row.lp_latitude,
   lp_longitude |-> row.lp_longitude,
   source_url |-> row.source_url]

\* line 243-254: new_df out of the collected rows
MakeNewDf(rows) ==
  [i \in 1..Len(rows) |->
     SetField(rows[i], NormalizeDatetime(rows[i].measurement_datetime),
              rows[i].lamppost_id)]

\* the texts pandas.read_csv takes for a missing value
NaStrings == {"", "NA", "NaN", "nan", "null", "N/A"}

ReadCell(s) == IF s \in NaStrings THEN NA ELSE Txt(s)

\* pd.read_csv(out_csv, dtype=str) followed by existing[OUT_COLS]
read_csv(rows) ==
  [i \in 1..Len(rows) |-> [c \in DOMAIN rows[i] |-> ReadCell(rows[i][c])]]

WriteCell(v) ==
  IF isna(v) THEN "" ELSE IF v.k = "num" THEN FloatStr(v.n) ELSE v.s

\* DataFrame.to_csv(index=False): the text of every cell
to_csv(rows) ==
  [i \in 1..Len(rows) |-> [c \in DOMAIN rows[i] |-> WriteCell(rows[i][c])]]

\* variant: the new rows are put before the existing ones
Concat_NewFirst(old, new) == new \o old

\* line 266: pd.concat([existing, new_df])
Concat(old, new) == old \o new

\* line 275: lamppost_id coerced to str on the whole frame
CoerceIds(rows) ==
  [i \in 1..Len(rows) |->
     SetField(rows[i], rows[i].measurement_datetime, AsTypeStr(rows[i].lamppost_id))]

DedupKey(row) == <<row.measurement_datetime, row.lamppost_id>>

\* keep="first": a row is kept when no earlier row has its key
KeptFirst(rows, i) == \A j \in 1..(i - 1) : DedupKey(rows[j]) # DedupKey(rows[i])

RECURSIVE SelectKept(_, _)
SelectKept(rows, i) ==
  IF i > Len(rows) THEN <<>>
  ELSE (IF KeptFirst(rows, i) THEN <<rows[i]>> ELSE <<>>) \o SelectKept(rows, i + 1)

\* variant: keep="last"
KeptLast(rows, i) == \A j \in (i + 1)..Len(rows) : DedupKey(rows[j]) # DedupKey(rows[i])

RECURSIVE SelectKeptLast(_, _)
SelectKeptLast(rows, i) ==
  IF i > Len(rows) THEN <<>>
  ELSE (IF KeptLast(rows, i) THEN <<rows[i]>> ELSE <<>>) \o SelectKeptLast(rows, i + 1)

drop_duplicates_keep_last(rows) == SelectKeptLast(rows, 1)

\* line 277: drop_duplicates(subset=[measurement_datetime, lamppost_id], keep="first")
drop_duplicates(rows) == SelectKept(rows, 1)

\* the output file: absent, present but unreadable, or rows of text
NoFile == [exists |-> FALSE, readable |-> FALSE, rows |-> <<>>]
CsvFile(rows) == [exists |-> TRUE, readable |-> TRUE, rows |-> rows]
BrokenFile == [exists |-> TRUE, readable |-> FALSE, rows |-> <<>>]

\* variant: the early return is never taken
NothingCollected_Never(c) == FALSE

\* `if not collected` of line 239
NothingCollected(c) == c = <<>>

\* ------------------------------------------------------------- the inputs
\* the feed of the end-to-end example: LP1, 2024, 3, 5, 21.5, 60.0, 3.2
FeedExample ==
  DataFrame(ExampleColumns,
    << <<Txt("LP1"), Num(20240), Num(30), Num(50), Num(215), Num(600), Num(32)>> >>)

\* an all-numeric feed: the identifier arrives as the float 7.0; both rows
\* carry the same identifier and the same time of measurement
FeedNumericId ==
  DataFrame(HourlyColumns,
    << <<Num(70), Num(20240), Num(20), Num(290), Num(70), Num(215), NA, Num(32)>>,
       <<Num(70), Num(20240), Num(20), Num(290), Num(79), Num(225), NA, Num(32)>> >>)

FeedNoMatch == DataFrame(UnmatchedColumns, << <<Num(10), Txt("x")>> >>)

FeedHeaderOnly == DataFrame(ExampleColumns, <<>>)

FeedBadCell ==
  DataFrame(ExampleColumns,
    << <<Txt("LP1"), Num(20240), Num(30), Num(50), Txt("abc"), Num(600), Num(32)>> >>)

Feeds == {FeedExample, FeedNumericId, FeedNoMatch, FeedHeaderOnly, FeedBadCell}

LocationRow(u4, u2, u1) ==
  <<Field("DEVICE_04_DATA_URL", u4), Field("DEVICE_02_DATA_URL", u2),
    Field("DEVICE_01_DATA_URL", u1), Field("LP_LATITUDE", Num(12)),
    Field("LP_LONGITUDE", Num(46))>>

LocationRows ==
  {LocationRow(Txt(" http://d1/csv "), Txt("http://d2/csv"), NA),
   LocationRow(NA, Txt(" "), Txt("http://d1/csv")),
   LocationRow(NA, Txt(""), NA)}

TextRow(id, dt, t) ==
  [lamppost_id |-> id, measurement_datetime |-> dt, air_temperature_c |-> t,
   relative_humidity_pct |-> "55.0", device_height_m |-> "3.2",
   lp_latitude |-> "1.2", lp_longitude |-> "4.6", source_url |-> "http://d1/csv"]

\* the output file before the first run: absent, unreadable, written by an
\* earlier run, or a CSV of another origin (duplicate keys, other spellings)
InitialFiles ==
  {NoFile, BrokenFile,
   CsvFile(<<TextRow("LP1", "2024-03-05T00:00:00", "20.0"),
             TextRow("7.0", "2024-02-29 07:00:00", "20.0"),
             TextRow("7.0", "2024-02-29 07:00:00", "19.0")>>)}

\* ------------------------------------------------------------ main()
Init ==
  /\ pc = "loop"
  /\ idx = 1
  /\ gdf_row = <<>>
  /\ url = ""
  /\ device_df = EmptyFrame
  /\ collected = <<>>
  /\ failures = 0
  /\ file \in InitialFiles
  /\ removed = 0
  /\ run = 1
  /\ lastCollected = <<>>
  /\ lastFile = file
  /\ lastWrote = FALSE
  /\ arg = NA
  /\ ret = NA

\* line 203-207: the location has no usable device url
NoDeviceUrl ==
  /\ pc = "loop" /\ idx <= MaxLocations
  /\ \E row \in LocationRows :
       find_active_url_from_row(row) = ""
  /\ idx' = idx + 1
  /\ UNCHANGED <<pc, gdf_row, url, device_df, collected, failures, file, removed, run, lastCollected, lastFile, lastWrote, arg, ret>>

\* line 209-215: session.get or raise_for_status raises
RequestFailed ==
  /\ pc = "loop" /\ idx <= MaxLocations
  /\ \E row \in LocationRows :
       find_active_url_from_row(row) # ""
  /\ failures' = failures + 1
  /\ idx' = idx + 1
  /\ UNCHANGED <<pc, gdf_row, url, device_df, collected, file, removed, run, lastCollected, lastFile, lastWrote, arg, ret>>

\* line 217-221: try_parse_csv_bytes raises
ParseFailed ==
  /\ pc = "loop" /\ idx <= MaxLocations
  /\ \E row \in LocationRows :
       find_active_url_from_row(row) # ""
  /\ failures' = failures + 1
  /\ idx' = idx + 1
  /\ UNCHANGED <<pc, gdf_row, url, device_df, collected, file, removed, run, lastCollected, lastFile, lastWrote, arg, ret>>

\* line 209-218: the feed is fetched and parsed into device_df
Parsed ==
  /\ pc = "loop" /\ idx <= MaxLocations
  /\ \E row \in LocationRows :
       /\ find_active_url_from_row(row) # ""
       /\ gdf_row' = row
       /\ url' = find_active_url_from_row(row)
  /\ \E df \in Feeds : device_df' = df
  /\ pc' = "extract"
  /\ UNCHANGED <<idx, collected, failures, file, removed, run, lastCollected, lastFile, lastWrote, arg, ret>>

\* line 224: extract_fields_from_device_df raises, nothing catches it
ExtractRaised ==
  /\ pc = "extract"
  /\ ExtractRaises(device_df)
  /\ pc' = "crashed"
  /\ UNCHANGED <<idx, gdf_row, url, device_df, collected, failures, file, removed, run, lastCollected, lastFile,
                 lastWrote, arg, ret>>

\* line 224-237: extraction, the emptiness test, lat/lon and url, append
Extracted ==
  /\ pc = "extract"
  /\ ~ExtractRaises(device_df)
  /\ LET extracted == extract_fields_from_device_df(device_df)
     IN IF IsEmptyFrame(extracted)
        THEN collected' = collected
        ELSE collected' = collected \o AttachLocation(extracted, gdf_row, url)
  /\ idx' = idx + 1
  /\ pc' = "loop"
  /\ gdf_row' = <<>>
  /\ url' = ""
  /\ device_df' = EmptyFrame
  /\ UNCHANGED <<failures, file, removed, run, lastCollected, lastFile, lastWrote, arg, ret>>

\* line 239-241: the layer is exhausted and nothing was collected
NoRowsCollected ==
  /\ pc = "loop"
  /\ NothingCollected(collected)
  /\ pc' = "no_rows"
  /\ UNCHANGED <<idx, gdf_row, url, device_df, collected, failures, file, removed, run, lastCollected, lastFile,
                 lastWrote, arg, ret>>

\* line 243-283: the layer is exhausted; merge, dedup and save
Persist ==
  /\ pc = "loop"
  /\ ~NothingCollected(collected)
  /\ LET fresh == MakeNewDf(collected)
         old == IF file.exists /\ file.readable THEN read_csv(file.rows) ELSE <<>>
         merged == CoerceIds(Concat(old, fresh))
         deduped == drop_duplicates(merged)
     IN /\ removed' = Len(merged) - Len(deduped)
        /\ file' = CsvFile(to_csv(deduped))
  /\ pc' = "saved"
  /\ UNCHANGED <<idx, gdf_row, url, device_df, collected, failures, run,
                 lastCollected, lastFile, lastWrote, arg, ret>>

\* the tool is invoked again on the same output path
NextRun ==
  /\ pc \in {"saved", "no_rows", "crashed"}
  /\ run < MaxRuns
  /\ run' = run + 1
  /\ lastCollected' = IF pc = "saved" THEN collected ELSE <<>>
  /\ lastFile' = file
  /\ lastWrote' = (pc = "saved")
  /\ pc' = "loop"
  /\ idx' = 1
  /\ gdf_row' = <<>>
  /\ url' = ""
  /\ device_df' = EmptyFrame
  /\ collected' = <<>>
  /\ failures' = 0
  /\ removed' = 0
  /\ UNCHANGED <<file, arg, ret>>

Next ==
  \/ NoDeviceUrl
  \/ RequestFailed
  \/ ParseFailed
  \/ Parsed
  \/ ExtractRaised
  \/ Extracted
  \/ NoRowsCollected
  \/ Persist
  \/ NextRun

Spec == Init /\ [][Next]_vars

\* ------------------------------------------- the functions on their own
Unresolved == [k |-> "unresolved", n |-> 0, s |-> ""]

YearCells == {Unresolved, NA, Txt("abc"), Num(20240), NumTxt(20235)}
MonthCells == {Unresolved, NA, Num(20), Num(39), Num(130)}
DayCells == {Unresolved, Txt("x"), Num(50), Num(290), Num(310)}
HourCells == {Unresolved, NA, Txt("noon"), Num(79), Num(240), Num(0 - 5)}
MinuteCells == {Unresolved, Num(300), Num(600)}
SecondCells == {Unresolved, Txt("x"), Num(599)}

DateKeys == <<"measurement_year", "measurement_month", "measurement_day",
              "measurement_hour", "measurement_minute", "measurement_second">>

\* a row of six cells and the column map that resolves the chosen ones
AssembleArg(y, mo, da, h, mi, s) ==
  LET cells == <<y, mo, da, h, mi, s>>
  IN [row |-> [i \in 1..6 |-> IF cells[i] = Unresolved THEN NA ELSE cells[i]],
      cols_map |-> [key \in {DateKeys[i] : i \in 1..6} |->
                      LET i == CHOOSE j \in 1..6 : DateKeys[j] = key
                      IN IF cells[i] = Unresolved THEN 0 ELSE i]]

InitAssemble ==
  /\ pc = "call"
  /\ \E y \in YearCells, mo \in MonthCells, da \in DayCells, h \in HourCells,
        mi \in MinuteCells, s \in SecondCells :
       arg = AssembleArg(y, mo, da, h, mi, s)
  /\ ret = NA
  /\ idx = 1 /\ gdf_row = <<>> /\ url = "" /\ device_df = EmptyFrame
  /\ collected = <<>> /\ failures = 0 /\ file = NoFile /\ removed = 0 /\ run = 1
  /\ lastCollected = <<>> /\ lastFile = NoFile /\ lastWrote = FALSE

\* one call of build_measurement_datetime_from_row_using_columns
Assemble ==
  /\ pc = "call"
  /\ ret' = build_measurement_datetime_from_row_using_columns(arg.row, arg.cols_map)
  /\ pc' = "returned"
  /\ UNCHANGED <<idx, gdf_row, url, device_df, collected, failures, file,
                 removed, run, lastCollected,
                 lastFile, lastWrote, arg>>

NextAssemble == Assemble

SpecAssemble == InitAssemble /\ [][NextAssemble]_vars

GdfNames == {"LP_LATITUDE", "lp_latitude", "Lp_Latitude", "LP_LONGITUDE",
             "lp_longitude", "OBJECTID"}
GdfValues == {NA, Num(12), Num(46)}
GdfFields == {Field(nm, v) : nm \in GdfNames, v \in GdfValues}

\* location records of one to three fields with distinct names
GdfRows ==
  {<<a>> : a \in GdfFields}
    \cup {r \in {<<a, b>> : a \in GdfFields, b \in GdfFields} : r[1].name # r[2].name}
    \cup {r \in {<<a, b, c>> : a \in GdfFields, b \in GdfFields, c \in GdfFields} :
            r[1].name # r[2].name /\ r[1].name # r[3].name /\ r[2].name # r[3].name}

OneExtractedRow == extract_fields_from_device_df(FeedExample)

InitLatLon ==
  /\ pc = "call"
  /\ arg \in GdfRows
  /\ ret = NA
  /\ idx = 1 /\ gdf_row = <<>> /\ url = "" /\ device_df = EmptyFrame
  /\ collected = <<>> /\ failures = 0 /\ file = NoFile /\ removed = 0 /\ run = 1
  /\ lastCollected = <<>> /\ lastFile = NoFile /\ lastWrote = FALSE

\* line 229-234 for one location record
AttachLatLon ==
  /\ pc = "call"
  /\ ret' = AttachLocation(OneExtractedRow, arg, "http://d1/csv")
  /\ pc' = "returned"
  /\ UNCHANGED <<idx, gdf_row, url, device_df, collected, failures, file,
                 removed, run, lastCollected,
                 lastFile, lastWrote, arg>>

NextLatLon == AttachLatLon

SpecLatLon == InitLatLon /\ [][NextLatLon]_vars

\* ------------------------------------------------------------ properties
KeyText(r) == <<r.measurement_datetime, r.lamppost_id>>

\* the rows on disk when the run started, as read back
PriorRows == IF lastFile.exists /\ lastFile.readable THEN read_csv(lastFile.rows) ELSE <<>>

\* prior rows then newly collected rows, as CSV text
ConcatText == to_csv(PriorRows) \o to_csv(collected)

FirstOfKey(rows, p) == \A q \in 1..(p - 1) : KeyText(rows[q]) # KeyText(rows[p])

\* C1: after a run that writes the dataset, no two written rows share the
\* pair (measurement_datetime, lamppost_id), and for every pair occurring in
\* prior-rows-then-new-rows the written row is its first occurrence there
\* (so a readable prior row wins over a new row with the same pair).
C1_UniqueFirstWins ==
  pc = "saved" =>
    /\ \A i, j \in 1..Len(file.rows) :
         i # j => KeyText(file.rows[i]) # KeyText(file.rows[j])
    /\ \A p \in 1..Len(ConcatText) :
         FirstOfKey(ConcatText, p) =>
           \E i \in 1..Len(file.rows) : file.rows[i] = ConcatText[p]
    /\ Len(file.rows) = Cardinality({KeyText(ConcatText[p]) : p \in 1..Len(ConcatText)})

C1_Witness ==
  /\ pc = "saved"
  /\ \E i \in 1..Len(PriorRows), j \in 1..Len(collected) :
       /\ KeyText(to_csv(PriorRows)[i]) = KeyText(to_csv(collected)[j])
       /\ to_csv(PriorRows)[i] # to_csv(collected)[j]
       /\ FirstOfKey(ConcatText, i)

\* C2: if the request or the parse of a location fails, the run does not
\* abort (and every later location is still processed).
C2_FailureNeverAborts == failures > 0 => pc # "crashed"

NoFieldResolves(df) == \A key \in DOMAIN SEARCH_KEYS : FoundColumns(df)[key] = 0

\* C3: a parsed feed in which no semantic field resolves to a column is
\* skipped: no record is added to the buffer and the loop goes on with the
\* next location.
C3_UnmatchedFeedSkipped ==
  [][(pc = "extract" /\ NoFieldResolves(device_df))
       => (pc' = "loop" /\ idx' = idx + 1 /\ collected' = collected)]_vars

\* C4: on a parsed feed with rows, extraction never raises for a cell's
\* content: the run is not aborted and one record per row is emitted.
C4_CellsNeverRaise ==
  [][(pc = "extract" /\ device_df.rows # <<>> /\ ~NoFieldResolves(device_df))
       => (pc' = "loop" /\ Len(collected') = Len(collected) + Len(device_df.rows))]_vars

\* C5: a second run that collects exactly the records the previous run
\* collected and wrote leaves the file with the same rows, and reports as
\* many duplicates removed as rows were newly collected.
C5_RerunIdempotent ==
  (pc = "saved" /\ lastWrote /\ collected = lastCollected)
    => (file = lastFile /\ removed = Len(collected))

C5_Witness ==
  /\ pc = "saved" /\ lastWrote /\ collected = lastCollected
  /\ Len(collected) = 1 /\ removed = 1
  /\ Len(file.rows) >= 1

IsCanonical(s) == \E i \in DOMAIN DtList : s = IsoText[i]

\* C6: in every written dataset each measurement_datetime, of a prior row or
\* of a new one, is absent or of the form YYYY-MM-DDTHH:MM:SS.
C6_DatetimesCanonical ==
  pc = "saved" =>
    \A i \in 1..Len(file.rows) :
      file.rows[i].measurement_datetime = "" \/ IsCanonical(file.rows[i].measurement_datetime)

RECURSIVE IsSubsequence(_, _)
IsSubsequence(a, b) ==
  IF a = <<>> THEN TRUE
  ELSE IF b = <<>> THEN FALSE
  ELSE IF Head(a) = Head(b) THEN IsSubsequence(Tail(a), Tail(b))
  ELSE IsSubsequence(a, Tail(b))

\* C7: the written rows are the surviving prior rows in their prior order
\* followed by the surviving new rows in the order of their locations and,
\* within a location, of the feed's rows; dedup never reorders.
C7_RowOrder ==
  [][/\ (pc = "extract" /\ pc' = "loop") =>
          /\ SubSeq(collected', 1, Len(collected)) = collected
          /\ \A k \in 1..(Len(collected') - Len(collected)) :
               collected'[Len(collected) + k].air_temperature_c
                 = CoerceFloat(RowGet(device_df.rows[k], FoundColumns(device_df).air_temperature))
     /\ (pc = "loop" /\ pc' = "saved") =>
          IsSubsequence(file'.rows,
                        to_csv(IF file.exists /\ file.readable THEN read_csv(file.rows) ELSE <<>>)
                          \o to_csv(collected))]_vars

C7_Witness ==
  /\ pc = "saved"
  /\ Len(PriorRows) >= 2 /\ Len(collected) >= 2
  /\ Len(file.rows) >= 3
  /\ removed >= 1

Numeric(v) == v.k \in {"num", "numtext"}
DatePartGiven(key) == arg.cols_map[key] # 0 /\ Numeric(arg.row[arg.cols_map[key]])
PartValue(key) == IntTrunc(arg.row[arg.cols_map[key]].n)
TimePart(key) == IF DatePartGiven(key) THEN PartValue(key) ELSE 0

\* C8: the assembler returns absent exactly when year, month or day is
\* unresolved, missing or non-numeric, or the values form no valid
\* date-time; otherwise YYYY-MM-DDTHH:MM:SS of the truncated year, month and
\* day, with hour, minute and second 0 when unresolved, missing or
\* unparseable.
C8_Assemble ==
  pc = "returned" =>
    IF DatePartGiven("measurement_year") /\ DatePartGiven("measurement_month")
         /\ DatePartGiven("measurement_day")
         /\ ValidDatetime(PartValue("measurement_year"), PartValue("measurement_month"),
                          PartValue("measurement_day"), TimePart("measurement_hour"),
                          TimePart("measurement_minute"), TimePart("measurement_second"))
    THEN ret = Txt(ToString(PartValue("measurement_year")) \o "-"
                     \o Pad2(PartValue("measurement_month")) \o "-"
                     \o Pad2(PartValue("measurement_day")) \o "T"
                     \o Pad2(TimePart("measurement_hour")) \o ":"
                     \o Pad2(TimePart("measurement_minute")) \o ":"
                     \o Pad2(TimePart("measurement_second")))
    ELSE ret = NA

\* year=2024, month=3.9, day=5, no time fields gives 2024-03-05T00:00:00
C8_Witness ==
  /\ pc = "returned"
  /\ arg = AssembleArg(Num(20240), Num(39), Num(50), Unresolved, Unresolved, Unresolved)
  /\ ret = Txt("2024-03-05T00:00:00")

MatchingFields(nm) == {i \in 1..Len(arg) : Lower(arg[i].name) = nm}
FirstMatch(nm) ==
  IF MatchingFields(nm) = {} THEN NA
  ELSE arg[CHOOSE i \in MatchingFields(nm) : \A j \in MatchingFields(nm) : i <= j].val
LastMatch(nm) ==
  IF MatchingFields(nm) = {} THEN NA
  ELSE arg[CHOOSE i \in MatchingFields(nm) : \A j \in MatchingFields(nm) : i >= j].val

\* C9 as stated: the latitude and longitude attached to a location's records
\* are the values of the first field named lp_latitude / lp_longitude
\* case-insensitively, absent when no field matches.
C9_FirstMatchWins ==
  pc = "returned" =>
    \A i \in 1..Len(ret) :
      /\ ret[i].lp_latitude = FirstMatch("lp_latitude")
      /\ ret[i].lp_longitude = FirstMatch("lp_longitude")

\* C9 amended: the latitude and longitude attached to a location's records
\* are the values of the last field, in field order, named lp_latitude /
\* lp_longitude case-insensitively, absent when no field matches.
C9_LastMatchWins ==
  pc = "returned" =>
    /\ Len(ret) = 1
    /\ \A i \in 1..Len(ret) :
         /\ ret[i].lp_latitude = LastMatch("lp_latitude")
         /\ ret[i].lp_longitude = LastMatch("lp_longitude")

C9_Witness ==
  /\ pc = "returned"
  /\ Cardinality(MatchingFields("lp_latitude")) >= 2
  /\ FirstMatch("lp_latitude") # LastMatch("lp_latitude")
  /\ ret[1].lp_latitude = LastMatch("lp_latitude")

\* C10: a run that collects nothing ends normally and leaves the output
\* file as it was: not overwritten, not re-deduplicated, not created.
C10_NothingCollectedLeavesFile ==
  (pc \in {"saved", "no_rows"} /\ collected = <<>>)
    => (pc = "no_rows" /\ file = lastFile)

C10_Witness ==
  /\ pc = "no_rows"
  /\ idx > 1
  /\ failures >= 1
  /\ file.exists /\ file.readable /\ Len(file.rows) >= 3

====
